---- MODULE Spec2Model ----
(***************************************************************************)
(* Model of lib/textual_flow.py of CBGM: the best-parent selection of      *)
(* get_parents and the per-unit build of TextualFlow (direct and MPI).     *)
(*                                                                         *)
(* Python values:                                                          *)
(*   a parent candidate (ancestor, rank, gen) is the tuple <<a, r, g>>;    *)
(*   a combination is a sequence of candidates;                            *)
(*   Python's None is Nil (the empty tuple) where the other values are     *)
(*   numbers or maps, a present value x is then Some(x) == <<x>>;          *)
(*   a None ancestor id is the string NoneId.                              *)
(***************************************************************************)
EXTENDS Integers, Sequences, FiniteSets, TLC

VARIABLES
    \* ---- get_parents (one call, SpecSelect) ----
    gp_pc,                  \* "idle" | "loop" | "returned"
    connectivity,           \* the connectivity argument
    w1_parent,              \* the w1_parent argument
    ci,                     \* position of the for loop of line 73
    combinations,           \* the provider's answer for the current threshold
    best_parents_by_rank,
    best_rank,
    best_parents_by_gen,
    best_gen,
    parents,
    parent_maps,            \* get_parents' local dict
    gp_ret,                 \* Nil until returned; then Nil (None) or Some(dict)
    \* ---- the run of textual_flow / TextualFlow (SpecFlow) ----
    pc,                     \* where the controlling process is
    entry,                  \* "textual_flow" (the function) | "TextualFlow" (the class)
    mpi_mode,               \* OMPI_COMM_WORLD_SIZE is in the environment
    arg_perfect_only,       \* the caller's perfect_only
    arg_suffix,             \* the caller's suffix
    arg_connectivity,       \* the caller's connectivity
    variant_units,          \* the caller's variant units
    vi,                     \* position in variant_units
    files,                  \* the artifacts that exist (os.path.exists)
    output_files,           \* self.output_files
    self_connectivity,      \* self.connectivity
    perfect_only,           \* self.perfect_only
    suffix,                 \* self.suffix
    mpi,                    \* self.mpi
    self_parent_maps,       \* self.parent_maps
    wi,                     \* position of the loop of line 234
    mpi_queue,              \* the tasks put and not yet taken
    worker,                 \* what each MPI child is doing
    results,                \* results sent by children, not yet handled
    handled,                \* the witnesses whose result mpi_handle_result stored
    di,                     \* position of the loop of line 252
    ri,                     \* position of the loop of line 262
    G,                      \* the graph of draw_diagram
    rank_mapping,
    exc                     \* Nil, or the exception that ended the run

gp_vars == <<gp_pc, connectivity, w1_parent, ci, combinations, best_parents_by_rank,
             best_rank, best_parents_by_gen, best_gen, parents, parent_maps, gp_ret>>

flow_vars == <<pc, entry, mpi_mode, arg_perfect_only, arg_suffix, arg_connectivity,
               variant_units, vi, files, output_files, self_connectivity, perfect_only,
               suffix, mpi, self_parent_maps, wi, mpi_queue, worker, results, handled,
               di, ri, G, rank_mapping, exc>>

vars == <<gp_vars, flow_vars>>

\* ------------------------------------------------------------------ bounds

\* the provider returns at most MaxCombos combinations for one threshold
MaxCombos == 2

\* ------------------------------------------------------------------ values

Nil == <<>>

Some(x) == <<x>>

NoneId == "<None>"

OL_PARENT == "OL_PARENT"

max_acceptable_gen == 2

EmptyDict == [k \in {} |-> Nil]

DictPut(d, k, v) == [x \in (DOMAIN d) \cup {k} |-> IF x = k THEN v ELSE d[x]]

MaxOf(S) == CHOOSE m \in S : \A x \in S : x <= m

\* max(x[1] for x in combination)
Rank(combination) == MaxOf({combination[i][2] : i \in DOMAIN combination})

\* max(x[2] for x in combination)
Gen(combination) == MaxOf({combination[i][3] : i \in DOMAIN combination})

\* ------------------------------------------------------------------ get_parents

\* the best-so-far trackers of lines 66-69
FreshTracker ==
    [best_parents_by_rank |-> <<>>, best_rank |-> Nil,
     best_parents_by_gen |-> <<>>, best_gen |-> Nil]

\* lines 99-106: the by-generation tracker
ByGenUpdate(t, combination, rank, gen) ==
    IF t.best_gen = Nil \/ gen < t.best_gen[1]
    THEN [t EXCEPT !.best_parents_by_gen = combination, !.best_gen = Some(gen)]
    ELSE IF gen = t.best_gen[1] /\ rank < Rank(t.best_parents_by_gen)
         THEN [t EXCEPT !.best_parents_by_gen = combination, !.best_gen = Some(gen)]
         ELSE t

\* lines 108-110: the by-rank tracker
ByRankUpdate(t, combination, rank) ==
    IF t.best_rank = Nil \/ rank < t.best_rank[1]
    THEN [t EXCEPT !.best_parents_by_rank = combination, !.best_rank = Some(rank)]
    ELSE t

\* lines 89-110: the body of the inner loop for one combination
RankStep(t, combination) ==
    IF combination = <<>>
    THEN t
    ELSE LET rank == Rank(combination)
             gen == Gen(combination)
         IN IF gen > max_acceptable_gen
            THEN t
            ELSE ByRankUpdate(ByGenUpdate(t, combination, rank, gen), combination, rank)

\* lines 83-110: the inner loop over the provider's combinations, in order
RECURSIVE RankPass(_, _)
RankPass(t, combs) ==
    IF combs = <<>> THEN t ELSE RankPass(RankStep(t, Head(combs)), Tail(combs))

\* the bug of choosing by rank whatever the generation
AnalyseByRankOnly(t) == t.best_parents_by_rank

\* lines 114-119: direct parents if there are any, else the best by rank
Analyse(t) ==
    IF t.best_gen = Some(1) THEN t.best_parents_by_gen ELSE t.best_parents_by_rank

\* lines 114-123
SelectParents(t, w1p) ==
    LET p == Analyse(t)
    IN IF w1p = OL_PARENT /\ p = <<>> THEN << <<OL_PARENT, -1, 1>> >> ELSE p

\* ------------------------------------------------------------------ inputs

Generations == 1..(max_acceptable_gen + 1)

\* rank 1 is the closest ancestor
Ranks == {1, 2}

\* the candidates the provider can name for the call under study
SelectCandidates == {<<a, r, g>> : a \in {"A"}, r \in Ranks, g \in Generations}

\* a reading with two parents in the local stemma needs two ancestors
TwoParentCombinations ==
    { << <<"A", 1, 1>>, <<"B", 2, 2>> >>, << <<"A", 2, 1>>, <<"B", 1, 1>> >> }

\* an empty combination: nothing explains the reading
SelectCombinations ==
    {<<>>} \cup {<<c>> : c \in SelectCandidates} \cup TwoParentCombinations

SeqsUpTo(n, S) == UNION {[1..k -> S] : k \in 0..n}

\* what coh.parent_combinations can return for one threshold
SelectAnswers == SeqsUpTo(MaxCombos, SelectCombinations)

NominalParents == {"a", OL_PARENT}

Connectivities == {<<1>>, <<1, 2>>}

\* ------------------------------------------------------------------ get_parents, step by step

Tracker ==
    [best_parents_by_rank |-> best_parents_by_rank, best_rank |-> best_rank,
     best_parents_by_gen |-> best_parents_by_gen, best_gen |-> best_gen]

\* lines 50-72: the call and the initialisation before the loop
GP_Call ==
    /\ gp_pc = "idle"
    /\ \E c \in Connectivities, p \in NominalParents :
          /\ connectivity' = c
          /\ w1_parent' = p
    /\ ci' = 1
    /\ combinations' = <<>>
    /\ best_parents_by_rank' = FreshTracker.best_parents_by_rank
    /\ best_rank' = FreshTracker.best_rank
    /\ best_parents_by_gen' = FreshTracker.best_parents_by_gen
    /\ best_gen' = FreshTracker.best_gen
    /\ parents' = <<>>
    /\ parent_maps' = EmptyDict
    /\ gp_ret' = Nil
    /\ gp_pc' = "loop"
    /\ UNCHANGED flow_vars

\* lines 73-126: one iteration of the loop over connectivity, the provider answering
GP_Threshold ==
    /\ gp_pc = "loop"
    /\ ci <= Len(connectivity)
    /\ \E answer \in SelectAnswers :
          LET t == RankPass(Tracker, answer)
              p == SelectParents(t, w1_parent)
          IN /\ combinations' = answer
             /\ best_parents_by_rank' = t.best_parents_by_rank
             /\ best_rank' = t.best_rank
             /\ best_parents_by_gen' = t.best_parents_by_gen
             /\ best_gen' = t.best_gen
             /\ parents' = p
             /\ parent_maps' = DictPut(parent_maps, connectivity[ci], p)
    /\ ci' = ci + 1
    /\ UNCHANGED <<gp_pc, connectivity, w1_parent, gp_ret>>
    /\ UNCHANGED flow_vars

\* lines 75-80: the provider raises, get_parents logs and returns None
GP_ProviderFails ==
    /\ gp_pc = "loop"
    /\ ci <= Len(connectivity)
    /\ gp_ret' = Nil
    /\ gp_pc' = "returned"
    /\ UNCHANGED <<connectivity, w1_parent, ci, combinations, best_parents_by_rank,
                   best_rank, best_parents_by_gen, best_gen, parents, parent_maps>>
    /\ UNCHANGED flow_vars

\* line 128
GP_Return ==
    /\ gp_pc = "loop"
    /\ ci > Len(connectivity)
    /\ gp_ret' = Some(parent_maps)
    /\ gp_pc' = "returned"
    /\ UNCHANGED <<connectivity, w1_parent, ci, combinations, best_parents_by_rank,
                   best_rank, best_parents_by_gen, best_gen, parents, parent_maps>>
    /\ UNCHANGED flow_vars

\* get_parents not called
GP_Idle ==
    /\ gp_pc = "idle"
    /\ connectivity = <<>>
    /\ w1_parent = ""
    /\ ci = 1
    /\ combinations = <<>>
    /\ best_parents_by_rank = <<>>
    /\ best_rank = Nil
    /\ best_parents_by_gen = <<>>
    /\ best_gen = Nil
    /\ parents = <<>>
    /\ parent_maps = EmptyDict
    /\ gp_ret = Nil

NoException == [kind |-> "none", witness |-> "", conn_value |-> 0, variant_unit |-> <<>>]

\* no run of textual_flow
Flow_Idle ==
    /\ pc = "none"
    /\ entry = ""
    /\ mpi_mode = FALSE
    /\ arg_perfect_only = FALSE
    /\ arg_suffix = ""
    /\ arg_connectivity = <<>>
    /\ variant_units = <<>>
    /\ vi = 1
    /\ files = {}
    /\ output_files = EmptyDict
    /\ self_connectivity = <<>>
    /\ perfect_only = FALSE
    /\ suffix = ""
    /\ mpi = FALSE
    /\ self_parent_maps = EmptyDict
    /\ wi = 1
    /\ mpi_queue = <<>>
    /\ worker = EmptyDict
    /\ results = {}
    /\ handled = <<>>
    /\ di = 1
    /\ ri = 1
    /\ G = [nodes |-> {}, edges |-> {}]
    /\ rank_mapping = EmptyDict
    /\ exc = NoException

SelectInit == GP_Idle /\ Flow_Idle

SelectNext == GP_Call \/ GP_Threshold \/ GP_ProviderFails \/ GP_Return

SpecSelect == SelectInit /\ [][SelectNext]_vars

\* ------------------------------------------------------------------ get_parents as one call

\* lines 73-128: the loop over connectivity; prov[c] is what
\* coh.parent_combinations does for threshold c (ok: it returns combinations)
RECURSIVE GetParentsLoop(_, _, _, _, _)
GetParentsLoop(t, maps, conn, w1p, prov) ==
    IF conn = <<>>
    THEN Some(maps)
    ELSE LET answer == prov[Head(conn)]
         IN IF ~answer.ok
            THEN Nil
            ELSE LET t2 == RankPass(t, answer.combinations)
                 IN GetParentsLoop(t2, DictPut(maps, Head(conn), SelectParents(t2, w1p)),
                                   Tail(conn), w1p, prov)

\* lines 50-128: None (Nil) or Some(the map of connectivity value to parents)
GetParents(w1p, conn, prov) == GetParentsLoop(FreshTracker, EmptyDict, conn, w1p, prov)

\* ------------------------------------------------------------------ inputs of a run

\* variant units, character by character
VU1 == <<"1", "/", "2">>

VU2 == <<"3", "/", "4", "/", "5">>

\* the rows of the cbgm table: (witness, label, parent) for a variant unit
Data(vu) ==
    IF vu = VU1
    THEN << <<"A", "a", NoneId>>, <<"B", "b", "a">> >>
    ELSE << <<"A", "a", NoneId>>, <<"B", "b", OL_PARENT>> >>

Witnesses(vu) == {Data(vu)[i][1] : i \in DOMAIN Data(vu)}

Suffixes == {"", "_x"}

FlowConnectivities == {<<3>>, <<3, 5>>}

\* the combinations the provider can return for a witness of a run
FlowCombinations ==
    { << <<"A", 2, 1>> >>,
      << <<"A", 1, 2>> >>,
      << <<NoneId, 1, 1>> >>,
      << <<"A", 1, 1>>, <<"B", 2, 1>> >> }

\* what coh.parent_combinations does for one threshold: it raises, or returns
\* no combination, or one
FlowAnswers ==
    {[ok |-> FALSE, combinations |-> <<>>], [ok |-> TRUE, combinations |-> <<>>]}
        \cup {[ok |-> TRUE, combinations |-> <<k>>] : k \in FlowCombinations}

Seq2Set(q) == {q[i] : i \in DOMAIN q}

Providers(conn) == [Seq2Set(conn) -> FlowAnswers]

Workers == {"child1", "child2"}

\* ------------------------------------------------------------------ TextualFlow

\* variant_unit.replace('/', '_')
RECURSIVE ReplaceSlash(_)
ReplaceSlash(vu) ==
    IF vu = <<>>
    THEN ""
    ELSE (IF Head(vu) = "/" THEN "_" ELSE Head(vu)) \o ReplaceSlash(Tail(vu))

\* lines 170-171
OutputFile(vu, conn_value, sfx) ==
    "textual_flow_" \o ReplaceSlash(vu) \o "_c" \o ToString(conn_value) \o sfx \o ".svg"

\* lines 169-179: the thresholds whose artifact does not exist yet, in order
RECURSIVE Todo(_, _, _, _)
Todo(vu, conn, sfx, existing) ==
    IF conn = <<>>
    THEN <<>>
    ELSE IF OutputFile(vu, Head(conn), sfx) \in existing
         THEN Todo(vu, Tail(conn), sfx, existing)
         ELSE <<Head(conn)>> \o Todo(vu, Tail(conn), sfx, existing)

\* lines 148 and 160 (the function), or the caller's own arguments (the class)
InstanceArgs ==
    IF entry = "textual_flow"
    THEN [perfect_only |-> FALSE, suffix |-> "", mpi |-> mpi_mode]
    ELSE [perfect_only |-> arg_perfect_only, suffix |-> arg_suffix, mpi |-> mpi_mode]

VU == variant_units[vi]

\* str.format of an ancestor id
Fmt(id) == IF id = NoneId THEN "None" ELSE id

\* line 272: ', '.join("{}.{}".format(x[0], x[1]) for x in parents)
RECURSIVE JoinParents(_)
JoinParents(ps) ==
    IF Len(ps) = 1
    THEN Fmt(ps[1][1]) \o "." \o ToString(ps[1][2])
    ELSE Fmt(ps[1][1]) \o "." \o ToString(ps[1][2]) \o ", " \o JoinParents(Tail(ps))

\* the captions with the generation (x[2]) where the code reads the rank (x[1])
RECURSIVE JoinParentsByGeneration(_)
JoinParentsByGeneration(ps) ==
    IF Len(ps) = 1
    THEN Fmt(ps[1][1]) \o "." \o ToString(ps[1][3])
    ELSE Fmt(ps[1][1]) \o "." \o ToString(ps[1][3]) \o ", "
            \o JoinParentsByGeneration(Tail(ps))

CaptionByGeneration(w1, w1_reading, ps) ==
    IF Len(ps) > 1
    THEN w1 \o "/[" \o JoinParentsByGeneration(ps) \o "] (" \o w1_reading \o ")"
    ELSE IF Len(ps) = 1 /\ ps[1][3] > 1
         THEN w1 \o "/" \o ToString(ps[1][3]) \o " (" \o w1_reading \o ")"
         ELSE w1 \o " (" \o w1_reading \o ")"

\* lines 268-281
Caption(w1, w1_reading, ps) ==
    IF Len(ps) > 1
    THEN w1 \o "/[" \o JoinParents(ps) \o "] (" \o w1_reading \o ")"
    ELSE IF Len(ps) = 1
         THEN IF ps[1][2] = 1
              THEN w1 \o " (" \o w1_reading \o ")"
              ELSE w1 \o "/" \o ToString(ps[1][2]) \o " (" \o w1_reading \o ")"
         ELSE w1 \o " (" \o w1_reading \o ")"

\* line 283
AllNull(ps) == \A i \in DOMAIN ps : ps[i][1] = NoneId

\* the bug of not excepting the initial text "A"
OrphanCheckNoInitialText(w1, ps, strict) ==
    IF AllNull(ps)
    THEN IF strict THEN "raise" ELSE "continue"
    ELSE "edges"

\* lines 283-292: what the orphan check does with a witness
OrphanCheck(w1, ps, strict) ==
    IF AllNull(ps)
    THEN IF w1 = "A" THEN "continue"
         ELSE IF strict THEN "raise" ELSE "continue"
    ELSE "edges"

\* the bug of leaving out the edges whose ancestor is no witness
AddEdgesFromWitnesses(g, w1, ps) ==
    [nodes |-> g.nodes,
     edges |-> g.edges \cup {<<ps[i][1], w1>> : i \in {j \in DOMAIN ps : ps[j][1] \in g.nodes}}]

\* lines 294-295: networkx adds the end points of an edge as nodes
AddEdges(g, w1, ps) ==
    [nodes |-> g.nodes \cup {ps[i][1] : i \in DOMAIN ps} \cup {w1},
     edges |-> g.edges \cup {<<ps[i][1], w1>> : i \in DOMAIN ps}]

\* line 298: networkx.relabel_nodes(G, rank_mapping, copy=False)
Relabel(g, mapping) ==
    LET to(n) == IF n \in DOMAIN mapping THEN mapping[n] ELSE n
    IN [nodes |-> {to(n) : n \in g.nodes},
        edges |-> {<<to(e[1]), to(e[2])>> : e \in g.edges}]

\* lines 309-316
HandleResult(maps, args, ret) == DictPut(maps, args[1], ret)

\* the bug of drawing without waiting for the children
AfterParentsNoWait(m) == "draw"

\* lines 242-248: the diagrams are drawn after mpi_wait in MPI mode
AfterParents(m) == IF m THEN "wait" ELSE "draw"

\* ------------------------------------------------------------------ the run, step by step

Raised(kind, w1) ==
    [kind |-> kind, witness |-> w1, conn_value |-> self_connectivity[di], variant_unit |-> VU]

Idle == [st |-> "idle", task |-> <<>>]

QueueDrained ==
    /\ mpi_queue = <<>>
    /\ results = {}
    /\ \A w \in DOMAIN worker : worker[w].st # "busy"

\* lines 145-148 and 157-160, and TextualFlow.__init__ (lines 164-196) up to
\* the query of textual_flow (lines 215-231), for the next variant unit
UnitBegin ==
    /\ pc = "unit"
    /\ vi <= Len(variant_units)
    /\ LET a == InstanceArgs
           todo == Todo(VU, arg_connectivity, a.suffix, files)
       IN /\ output_files' = [c \in Seq2Set(todo) |-> OutputFile(VU, c, a.suffix)]
          /\ self_connectivity' = todo
          /\ IF todo = <<>>
             THEN \* line 181: nothing to do
                  /\ vi' = vi + 1
                  /\ UNCHANGED <<pc, mpi, perfect_only, suffix, self_parent_maps, wi, handled>>
             ELSE /\ mpi' = a.mpi
                  /\ perfect_only' = a.perfect_only
                  /\ suffix' = a.suffix
                  /\ self_parent_maps' = EmptyDict
                  /\ handled' = <<>>
                  /\ wi' = 1
                  /\ pc' = "parents"
                  /\ UNCHANGED vi
    /\ UNCHANGED <<entry, mpi_mode, arg_perfect_only, arg_suffix, arg_connectivity,
                   variant_units, files, mpi_queue, worker, results, di, ri, G,
                   rank_mapping, exc>>
    /\ UNCHANGED gp_vars

\* lines 234, 238-240: the parents of the next witness, calculated here
ParentsDirect ==
    /\ pc = "parents"
    /\ ~mpi
    /\ wi <= Len(Data(VU))
    /\ LET row == Data(VU)[wi]
       IN \E prov \in Providers(self_connectivity) :
            self_parent_maps' =
                DictPut(self_parent_maps, row[1], GetParents(row[3], self_connectivity, prov))
    /\ wi' = wi + 1
    /\ UNCHANGED <<pc, entry, mpi_mode, arg_perfect_only, arg_suffix, arg_connectivity,
                   variant_units, vi, files, output_files, self_connectivity, perfect_only,
                   suffix, mpi, mpi_queue, worker, results, handled, di, ri, G,
                   rank_mapping, exc>>
    /\ UNCHANGED gp_vars

\* lines 234-236: the task of the next witness, queued
ParentsQueued ==
    /\ pc = "parents"
    /\ mpi
    /\ wi <= Len(Data(VU))
    /\ LET row == Data(VU)[wi]
       IN mpi_queue' = Append(mpi_queue, <<row[1], row[2], row[3], VU, self_connectivity>>)
    /\ wi' = wi + 1
    /\ UNCHANGED <<pc, entry, mpi_mode, arg_perfect_only, arg_suffix, arg_connectivity,
                   variant_units, vi, files, output_files, self_connectivity, perfect_only,
                   suffix, mpi, self_parent_maps, worker, results, handled, di, ri, G,
                   rank_mapping, exc>>
    /\ UNCHANGED gp_vars

\* lines 242-249: every witness has been gone through
ParentsDone ==
    /\ pc = "parents"
    /\ wi > Len(Data(VU))
    /\ pc' = AfterParents(mpi)
    /\ di' = 1
    /\ UNCHANGED <<entry, mpi_mode, arg_perfect_only, arg_suffix, arg_connectivity,
                   variant_units, vi, files, output_files, self_connectivity, perfect_only,
                   suffix, mpi, self_parent_maps, wi, mpi_queue, worker, results, handled,
                   ri, G, rank_mapping, exc>>
    /\ UNCHANGED gp_vars

\* a child takes the next task of the queue
ChildTakes(w) ==
    /\ worker[w].st = "idle"
    /\ mpi_queue # <<>>
    /\ worker' = [worker EXCEPT ![w] = [st |-> "busy", task |-> Head(mpi_queue)]]
    /\ mpi_queue' = Tail(mpi_queue)
    /\ UNCHANGED <<pc, entry, mpi_mode, arg_perfect_only, arg_suffix, arg_connectivity,
                   variant_units, vi, files, output_files, self_connectivity, perfect_only,
                   suffix, mpi, self_parent_maps, wi, results, handled, di, ri, G,
                   rank_mapping, exc>>
    /\ UNCHANGED gp_vars

\* line 153: the child runs get_parents on its task and sends the result back
ChildRuns(w) ==
    /\ worker[w].st = "busy"
    /\ LET args == worker[w].task
       IN \E prov \in Providers(args[5]) :
            results' = results \cup {<<args, GetParents(args[3], args[5], prov)>>}
    /\ worker' = [worker EXCEPT ![w] = Idle]
    /\ UNCHANGED <<pc, entry, mpi_mode, arg_perfect_only, arg_suffix, arg_connectivity,
                   variant_units, vi, files, output_files, self_connectivity, perfect_only,
                   suffix, mpi, self_parent_maps, wi, mpi_queue, handled, di, ri, G,
                   rank_mapping, exc>>
    /\ UNCHANGED gp_vars

\* lines 309-316, called by mpi_wait for a result that has arrived
MpiHandleResult ==
    /\ pc = "wait"
    /\ \E r \in results :
          /\ self_parent_maps' = HandleResult(self_parent_maps, r[1], r[2])
          /\ handled' = Append(handled, r[1][1])
          /\ results' = results \ {r}
    /\ UNCHANGED <<pc, entry, mpi_mode, arg_perfect_only, arg_suffix, arg_connectivity,
                   variant_units, vi, files, output_files, self_connectivity, perfect_only,
                   suffix, mpi, wi, mpi_queue, worker, di, ri, G, rank_mapping, exc>>
    /\ UNCHANGED gp_vars

\* line 245: mpi_wait(stop=False) returns once every task has been answered
MpiWaitReturns ==
    /\ pc = "wait"
    /\ QueueDrained
    /\ pc' = "draw"
    /\ UNCHANGED <<entry, mpi_mode, arg_perfect_only, arg_suffix, arg_connectivity,
                   variant_units, vi, files, output_files, self_connectivity, perfect_only,
                   suffix, mpi, self_parent_maps, wi, mpi_queue, worker, results, handled,
                   di, ri, G, rank_mapping, exc>>
    /\ UNCHANGED gp_vars

\* lines 252-253, 259-261: draw_diagram for the next connectivity value
DrawBegin ==
    /\ pc = "draw"
    /\ di <= Len(self_connectivity)
    /\ G' = [nodes |-> Witnesses(VU), edges |-> {}]
    /\ rank_mapping' = EmptyDict
    /\ ri' = 1
    /\ pc' = "rows"
    /\ UNCHANGED <<entry, mpi_mode, arg_perfect_only, arg_suffix, arg_connectivity,
                   variant_units, vi, files, output_files, self_connectivity, perfect_only,
                   suffix, mpi, self_parent_maps, wi, mpi_queue, worker, results, handled,
                   di, exc>>
    /\ UNCHANGED gp_vars

\* lines 262-295: the next witness of draw_diagram's loop. The values of a
\* parent map are lists, so the test of line 264 never finds None; a witness
\* whose get_parents returned None has no map to subscript at line 263.
DrawRow ==
    /\ pc = "rows"
    /\ ri <= Len(Data(VU))
    /\ LET row == Data(VU)[ri]
           w1 == row[1]
           maps == self_parent_maps[w1]
       IN IF maps = Nil
          THEN \* line 263: None is not subscriptable
               /\ exc' = Raised("TypeError", w1)
               /\ pc' = "raised"
               /\ UNCHANGED <<ri, G, rank_mapping>>
          ELSE LET ps == maps[1][self_connectivity[di]]
                   check == OrphanCheck(w1, ps, perfect_only)
               IN /\ rank_mapping' = DictPut(rank_mapping, w1, Caption(w1, row[2], ps))
                  /\ IF check = "raise"
                     THEN /\ exc' = Raised("ForestError", w1)
                          /\ pc' = "raised"
                          /\ UNCHANGED <<ri, G>>
                     ELSE /\ G' = IF check = "edges" THEN AddEdges(G, w1, ps) ELSE G
                          /\ ri' = ri + 1
                          /\ UNCHANGED <<pc, exc>>
    /\ UNCHANGED <<entry, mpi_mode, arg_perfect_only, arg_suffix, arg_connectivity,
                   variant_units, vi, files, output_files, self_connectivity, perfect_only,
                   suffix, mpi, self_parent_maps, wi, mpi_queue, worker, results, handled,
                   di>>
    /\ UNCHANGED gp_vars

\* lines 297-307: the nodes relabelled and the artifact written (the renderer,
\* dot, is taken to succeed)
DrawFinish ==
    /\ pc = "rows"
    /\ ri > Len(Data(VU))
    /\ G' = Relabel(G, rank_mapping)
    /\ files' = files \cup {output_files[self_connectivity[di]]}
    /\ di' = di + 1
    /\ pc' = "draw"
    /\ UNCHANGED <<entry, mpi_mode, arg_perfect_only, arg_suffix, arg_connectivity,
                   variant_units, vi, output_files, self_connectivity, perfect_only,
                   suffix, mpi, self_parent_maps, wi, mpi_queue, worker, results, handled,
                   ri, rank_mapping, exc>>
    /\ UNCHANGED gp_vars

\* line 252: no connectivity value is left; the constructor returns and the
\* instance, which the caller does not keep (lines 148, 160), is gone
UnitDone ==
    /\ pc = "draw"
    /\ di > Len(self_connectivity)
    /\ vi' = vi + 1
    /\ pc' = "unit"
    /\ output_files' = EmptyDict
    /\ self_connectivity' = <<>>
    /\ perfect_only' = FALSE
    /\ suffix' = ""
    /\ mpi' = FALSE
    /\ self_parent_maps' = EmptyDict
    /\ handled' = <<>>
    /\ wi' = 1
    /\ di' = 1
    /\ ri' = 1
    /\ G' = [nodes |-> {}, edges |-> {}]
    /\ rank_mapping' = EmptyDict
    /\ UNCHANGED <<entry, mpi_mode, arg_perfect_only, arg_suffix, arg_connectivity,
                   variant_units, files, mpi_queue, worker, results, exc>>
    /\ UNCHANGED gp_vars

\* lines 145, 150, 157: no variant unit is left
UnitsDone ==
    /\ pc = "unit"
    /\ vi > Len(variant_units)
    /\ pc' = IF entry = "textual_flow" /\ mpi_mode THEN "shutdown" ELSE "done"
    /\ UNCHANGED <<entry, mpi_mode, arg_perfect_only, arg_suffix, arg_connectivity,
                   variant_units, vi, files, output_files, self_connectivity, perfect_only,
                   suffix, mpi, self_parent_maps, wi, mpi_queue, worker, results, handled,
                   di, ri, G, rank_mapping, exc>>
    /\ UNCHANGED gp_vars

\* line 150: mpi_wait(stop=True) stops the children, which return "MPI child"
\* (lines 153-154)
MpiStop ==
    /\ pc = "shutdown"
    /\ QueueDrained
    /\ worker' = [w \in DOMAIN worker |-> [st |-> "stopped", task |-> <<>>]]
    /\ pc' = "done"
    /\ UNCHANGED <<entry, mpi_mode, arg_perfect_only, arg_suffix, arg_connectivity,
                   variant_units, vi, files, output_files, self_connectivity, perfect_only,
                   suffix, mpi, self_parent_maps, wi, mpi_queue, results, handled,
                   di, ri, G, rank_mapping, exc>>
    /\ UNCHANGED gp_vars

\* the caller's arguments, the environment and the artifacts already there;
\* the caller either calls the function textual_flow with a list of variant
\* units or constructs a TextualFlow for one variant unit itself
FlowInit ==
    /\ GP_Idle
    /\ pc = "unit"
    /\ entry \in {"textual_flow", "TextualFlow"}
    /\ mpi_mode \in BOOLEAN
    /\ arg_perfect_only \in BOOLEAN
    /\ arg_suffix \in Suffixes
    /\ arg_connectivity \in FlowConnectivities
    /\ variant_units \in (IF entry = "textual_flow" THEN {<<VU1, VU2>>} ELSE {<<VU1>>, <<VU2>>})
    /\ vi = 1
    /\ files \in {{}, {OutputFile(VU1, 3, "")}}
    /\ output_files = EmptyDict
    /\ self_connectivity = <<>>
    /\ perfect_only = FALSE
    /\ suffix = ""
    /\ mpi = FALSE
    /\ self_parent_maps = EmptyDict
    /\ wi = 1
    /\ mpi_queue = <<>>
    /\ worker = [w \in (IF mpi_mode THEN Workers ELSE {}) |-> Idle]
    /\ results = {}
    /\ handled = <<>>
    /\ di = 1
    /\ ri = 1
    /\ G = [nodes |-> {}, edges |-> {}]
    /\ rank_mapping = EmptyDict
    /\ exc = NoException

FlowNext ==
    \/ UnitBegin
    \/ ParentsDirect
    \/ ParentsQueued
    \/ ParentsDone
    \/ \E w \in Workers : w \in DOMAIN worker /\ ChildTakes(w)
    \/ \E w \in Workers : w \in DOMAIN worker /\ ChildRuns(w)
    \/ MpiHandleResult
    \/ MpiWaitReturns
    \/ DrawBegin
    \/ DrawRow
    \/ DrawFinish
    \/ UnitDone
    \/ UnitsDone
    \/ MpiStop

SpecFlow == FlowInit /\ [][FlowNext]_vars

\* ------------------------------------------------------------------ claims on get_parents

\* a threshold has been evaluated and its selection recorded
Evaluated == gp_pc \in {"loop", "returned"} /\ ci > 1

\* the selection recorded for the threshold evaluated last
Recorded == parent_maps[connectivity[ci - 1]]

\* the combinations of the threshold's list that are non-empty and within the cap
Survivors(combs) ==
    {i \in DOMAIN combs : combs[i] # <<>> /\ Gen(combs[i]) <= max_acceptable_gen}

Direct(combs) == {i \in Survivors(combs) : Gen(combs[i]) = 1}

\* the first combination of minimum rank among the survivors
MinRankFirst(combs) ==
    combs[CHOOSE i \in Survivors(combs) :
            \A j \in Survivors(combs) :
                \/ Rank(combs[i]) < Rank(combs[j])
                \/ (Rank(combs[i]) = Rank(combs[j]) /\ i <= j)]

\* C1: when the list of the threshold evaluated last holds a generation-1
\* combination, the selection recorded for it has maximum generation 1 and no
\* generation-1 combination of the list has a strictly lower rank.
C1_DirectParentsWin ==
    (Evaluated /\ Direct(combinations) # {}) =>
        /\ Recorded # <<>>
        /\ Gen(Recorded) = 1
        /\ \A i \in Direct(combinations) : Rank(combinations[i]) >= Rank(Recorded)

\* C1's case: the second threshold's list has two generation-1 combinations of
\* different ranks next to a closer generation-2 one
C1_Witness ==
    /\ Evaluated
    /\ ci = 3
    /\ \E i, j \in Direct(combinations) : Rank(combinations[i]) < Rank(combinations[j])
    /\ Gen(Recorded) = 1

\* C2: when the list of the threshold evaluated last holds no generation-1
\* combination, the selection recorded for it is the first minimum-rank
\* combination among the list's non-empty combinations within the cap.
C2_BestRankOfThisThreshold ==
    (Evaluated /\ Direct(combinations) = {} /\ Survivors(combinations) # {}) =>
        Recorded = MinRankFirst(combinations)

\* C9: the selection recorded for a threshold is the one get_parents records
\* when that threshold is the only one evaluated (fresh trackers), whatever
\* thresholds were evaluated before it.
C9_ThresholdIndependent ==
    Evaluated =>
        Recorded = SelectParents(RankPass(FreshTracker, combinations), w1_parent)

\* ------------------------------------------------------------------ claims on the run

ForestRaised == pc = "raised" /\ exc.kind = "ForestError"

\* draw_diagram is at work on, or was ended by an exception at, self_connectivity[di]
Drawing == pc \in {"rows", "raised"}

\* the selection draw_diagram reads for witness w1 and connectivity value c
Selection(w1, c) == self_parent_maps[w1][1][c]

\* draw_diagram has written the artifact of self_connectivity[di - 1]; G is its graph
GraphBuilt == pc = "draw" /\ di > 1

BuiltConn == self_connectivity[di - 1]

Synthetic == << <<OL_PARENT, -1, 1>> >>

\* C3: a provider failure for a witness (its parent map is None) does not end
\* the run with an exception; the witness is drawn as one without parents.
C3_ProviderFailureDoesNotCrash ==
    \A w \in DOMAIN self_parent_maps :
        self_parent_maps[w] = Nil => ~(pc = "raised" /\ exc.witness = w)

\* C4: the instances that textual_flow starts run with the caller's
\* perfect_only and suffix, and name their artifacts with the caller's suffix.
C4_CallerArgumentsInEffect ==
    (entry = "textual_flow" /\ pc \in {"parents", "wait", "draw", "rows", "raised"}) =>
        /\ perfect_only = arg_perfect_only
        /\ suffix = arg_suffix
        /\ \A c \in DOMAIN output_files : output_files[c] = OutputFile(VU, c, arg_suffix)

\* C5: when the run has ended and a ForestError was raised for one connectivity
\* value of a unit, the artifacts of the unit's other connectivity values have
\* been written all the same.
C5_ForestErrorAbortsOnlyItsPair ==
    (pc \in {"raised", "done"} /\ exc.kind = "ForestError") =>
        \A i \in DOMAIN self_connectivity :
            i # di => output_files[self_connectivity[i]] \in files

\* C6: draw_diagram raises ForestError only for a witness other than "A" whose
\* selection is empty or all-null and only with perfect_only set, then no
\* artifact is written for the connectivity value; and a witness it has gone past
\* with such a selection is "A" or perfect_only is not set.
C6_OrphanRule ==
    /\ ForestRaised =>
          /\ exc.witness # "A"
          /\ perfect_only
          /\ AllNull(Selection(exc.witness, self_connectivity[di]))
          /\ output_files[self_connectivity[di]] \notin files
    /\ Drawing =>
          \A j \in 1..(ri - 1) :
              LET w1 == Data(VU)[j][1]
              IN AllNull(Selection(w1, self_connectivity[di])) => (w1 = "A" \/ ~perfect_only)

\* C6's case: with perfect_only set, "A" was gone past with an all-null
\* selection and the next witness, as much an orphan, raised ForestError
C6_Witness ==
    /\ ForestRaised
    /\ exc.witness = "B"
    /\ AllNull(Selection("A", self_connectivity[di]))

\* C7: in MPI mode, once the diagrams of a unit are being drawn, exactly one
\* result has been handled for each witness of the unit, and self.parent_maps
\* holds a result for each of them.
C7_BarrierBeforeDraw ==
    (mpi /\ pc \in {"draw", "rows", "raised"}) =>
        /\ \A w \in Witnesses(VU) : Cardinality({i \in DOMAIN handled : handled[i] = w}) = 1
        /\ Len(handled) = Len(Data(VU))
        /\ DOMAIN self_parent_maps = Witnesses(VU)

\* C7's case: the children answered in the reverse order of the queue
C7_Witness ==
    /\ mpi
    /\ pc = "draw"
    /\ handled = <<"B", "A">>

\* the node that stands for id in the relabelled graph
NodeOf(id) == IF id \in DOMAIN rank_mapping THEN rank_mapping[id] ELSE id

\* the witnesses for whose candidates draw_diagram adds edges
Linked == {w \in Witnesses(VU) : ~AllNull(Selection(w, BuiltConn))}

\* the ancestor ids named by the candidates of w's selection
Ancestors(w) ==
    {Selection(w, BuiltConn)[i][1] : i \in DOMAIN Selection(w, BuiltConn)}

\* C8 as stated: the nodes of a built graph are the witnesses of the unit and
\* no other, no edge comes from a null ancestor id, and a witness with the
\* synthetic selection has no edge and adds no node.
C8_NodesAreTheWitnesses ==
    GraphBuilt =>
        /\ G.nodes = {NodeOf(w) : w \in Witnesses(VU)}
        /\ \A e \in G.edges : e[1] # NoneId
        /\ \A w \in Witnesses(VU) :
              Selection(w, BuiltConn) = Synthetic =>
                  /\ ~\E e \in G.edges : e[2] = NodeOf(w)
                  /\ OL_PARENT \notin G.nodes

\* C8 amended: the nodes of a built graph are the witnesses of the unit and the
\* ancestor ids of the edges that are no witnesses; the edges are those of every
\* candidate of the witnesses whose selection is not all-null (empty included);
\* a witness with the synthetic selection has the edge from OL_PARENT, which is
\* one more node.
C8_NodesAreWitnessesAndEdgeEnds ==
    GraphBuilt =>
        /\ G.edges = {<<NodeOf(a), NodeOf(w)>> : <<a, w>> \in
                        {<<a, w>> \in (UNION {Ancestors(w) : w \in Linked}) \X Linked :
                            a \in Ancestors(w)}}
        /\ G.nodes = {NodeOf(w) : w \in Witnesses(VU)}
                        \cup ((UNION {Ancestors(w) : w \in Linked}) \ Witnesses(VU))
        /\ \A w \in Witnesses(VU) :
              Selection(w, BuiltConn) = Synthetic =>
                  /\ <<OL_PARENT, NodeOf(w)>> \in G.edges
                  /\ OL_PARENT \in G.nodes

\* C8's case: a graph built for a unit one of whose witnesses has the synthetic
\* selection, next to a witness with a real ancestor
C8_Witness ==
    /\ GraphBuilt
    /\ Selection("B", BuiltConn) = Synthetic
    /\ <<NodeOf("A"), NodeOf("B")>> \notin G.edges
    /\ Cardinality(G.nodes) = 3

\* the reading of witness w1 in the unit
Reading(w1) == (CHOOSE row \in Seq2Set(Data(VU)) : row[1] = w1)[2]

\* "p.n, p.n, ..." for the candidates from the i-th on, n being field f of each
RECURSIVE Listing(_, _, _)
Listing(ps, f, i) ==
    Fmt(ps[i][1]) \o "." \o ToString(ps[i][f])
        \o (IF i < Len(ps) THEN ", " \o Listing(ps, f, i + 1) ELSE "")

\* C10 as stated: the caption follows the count of candidates and the generation:
\* "id (reading)" for none or for one of generation 1, "id/g (reading)" for one
\* of generation g > 1, "id/[p1.gen1, ...] (reading)" for several.
C10_CaptionByGeneration ==
    GraphBuilt =>
        \A w \in Witnesses(VU) :
            LET ps == Selection(w, BuiltConn)
                tail == " (" \o Reading(w) \o ")"
            IN /\ (Len(ps) = 0 \/ (Len(ps) = 1 /\ ps[1][3] = 1)) => rank_mapping[w] = w \o tail
               /\ (Len(ps) = 1 /\ ps[1][3] > 1) =>
                      rank_mapping[w] = w \o "/" \o ToString(ps[1][3]) \o tail
               /\ Len(ps) > 1 =>
                      rank_mapping[w] = w \o "/[" \o Listing(ps, 3, 1) \o "]" \o tail

\* C10 amended: the caption follows the count of candidates and the rank:
\* "id (reading)" for none or for one of rank 1, "id/r (reading)" for one of
\* rank r other than 1, "id/[p1.rank1, ...] (reading)" for several.
C10_CaptionByRank ==
    GraphBuilt =>
        \A w \in Witnesses(VU) :
            LET ps == Selection(w, BuiltConn)
                tail == " (" \o Reading(w) \o ")"
            IN /\ (Len(ps) = 0 \/ (Len(ps) = 1 /\ ps[1][2] = 1)) => rank_mapping[w] = w \o tail
               /\ (Len(ps) = 1 /\ ps[1][2] # 1) =>
                      rank_mapping[w] = w \o "/" \o ToString(ps[1][2]) \o tail
               /\ Len(ps) > 1 =>
                      rank_mapping[w] = w \o "/[" \o Listing(ps, 2, 1) \o "]" \o tail

\* C10's case: one candidate of rank 2 and generation 1 for "A", two candidates
\* for "B"
C10_Witness ==
    /\ GraphBuilt
    /\ rank_mapping["A"] = "A/2 (a)"
    /\ rank_mapping["B"] = "B/[A.1, B.2] (b)"

====
